---- MODULE Spec2Model ----
(***************************************************************************)
(* Model of the Glue job scripts of machine-downtime-monitor-on-aws:       *)
(*   source/glue-job-scripts/configuration.py    (the configuration job)   *)
(*   source/glue-job-scripts/convert_parquet.py  (the conversion job)      *)
(*                                                                         *)
(* Text values that the scripts split, join or strip are sequences of      *)
(* one-character strings ("a/b" is <<"a", "/", "b">>); names that the      *)
(* scripts only pass along (table names, prefixes, key names) are strings. *)
(* A Python dict is a function on strings; d.get(k, default) is DictGet.   *)
(* A raised exception ends the run: pc = "failed" and error holds it.      *)
(***************************************************************************)
EXTENDS Integers, Sequences, FiniteSets, TLC

VARIABLES
    job,                      \* which script runs: "configuration" | "convert_parquet" | "none"
    pc,                       \* position of main() in the running script
    error,                    \* the exception that ended the run, or NoError
    ops,                      \* the store operations performed so far, in order
    \* ---- the stores (external collaborators) ----
    configItem,               \* config table, item (DEFAULT, MESSAGE_FORMAT)
    uiRefItem,                \* ui-reference table, item (DEFAULT, UI_REFERENCE_MAPPING)
    uiTable,                  \* ui-reference table, MACHINE items as the scan pages them
    cfgTable,                 \* config table, MACHINE_CONFIG items as the scan pages them
    inputObjects,             \* the objects of the input bucket
    s3out,                    \* the objects put / written to the output bucket, in order
    bookmark,                 \* TRUE once job.commit() has run
    \* ---- script variables ----
    delimiter,                \* configuration.py main: delimiter; convert_parquet.py global
    location_keys,
    line_keys,
    scan_response,            \* the last scan response
    ui_reference_scan_items,
    reference_csv_body,
    config_scan_items,
    config_csv_body,
    messages_key_name,
    message_alias_key_name,
    message_quality_key_name,
    message_timestamp_key_name,
    message_value_key_name,
    raw_json_data,
    converted_json_data,
    mapped_data,
    \* ---- inputs and result of a function applied on its own ----
    fn_in,
    fn_out

vars == <<job, pc, error, ops, configItem, uiRefItem, uiTable, cfgTable,
          inputObjects, s3out, bookmark, delimiter, location_keys, line_keys,
          scan_response, ui_reference_scan_items, reference_csv_body,
          config_scan_items, config_csv_body, messages_key_name,
          message_alias_key_name, message_quality_key_name,
          message_timestamp_key_name, message_value_key_name, raw_json_data,
          converted_json_data, mapped_data, fn_in, fn_out>>

storeVars == <<configItem, uiRefItem, uiTable, cfgTable, inputObjects>>

configJobVars == <<location_keys, line_keys, scan_response,
                   ui_reference_scan_items, reference_csv_body,
                   config_scan_items, config_csv_body>>

schemaKeyVars == <<messages_key_name, message_alias_key_name,
                   message_quality_key_name, message_timestamp_key_name,
                   message_value_key_name>>

convertJobVars == <<raw_json_data, converted_json_data, mapped_data>>

fnVars == <<fn_in, fn_out>>

(***************************************************************************)
(* Bounds of the model.                                                    *)
(***************************************************************************)
MaxPages == 2          \* pages a scanned table is split into
MaxObjects == 2        \* objects in the input bucket
MaxAliasLen == 4       \* characters of an alias (alias decomposition)
MaxSegments == 3       \* segments of a split machine id (build_location_line)
MaxKeys == 2           \* positions of a position list (build_location_line)
MaxDownLen == 4        \* characters of a down-value string
MaxMessages == 2       \* messages of a raw record (convert_data_format)
MaxEnvelopes == 2      \* raw records of a frame (Map.apply)

(***************************************************************************)
(* Job arguments (getResolvedOptions) and module constants.                *)
(***************************************************************************)
CONFIG_TABLE == "config-table"
UI_REFERENCE_TABLE == "ui-reference-table"
INPUT_BUCKET == "input-bucket"
OUTPUT_BUCKET == "output-bucket"
CSV_PREFIX == "csv"
MANIFEST_PREFIX == "manifest"
MACHINE_INFORMATION_CSV == "machine_information.csv"
MACHINE_CONFIG_INFORMATION_CSV == "machine_config_information.csv"
MACHINE_INFORMATION_MANIFEST == "machine_information_manifest.json"
MACHINE_CONFIG_INFORMATION_MANIFEST == "machine_config_information_manifest.json"
PARTITION == "2026/11/04"
OTHER_PARTITION == "2026/11/03"

(***************************************************************************)
(* Python built-ins on text and dicts.                                     *)
(***************************************************************************)
Empty == <<>>

DictGet(d, k, default) == IF k \in DOMAIN d THEN d[k] ELSE default

\* d occurs in s at index i (1-based)
OccursAt(s, d, i) ==
    /\ i >= 1
    /\ i + Len(d) - 1 <= Len(s)
    /\ \A k \in 1..Len(d) : s[i + k - 1] = d[k]

RECURSIVE SplitFrom(_, _, _, _)
SplitFrom(s, sep, i, cur) ==
    IF i > Len(s) THEN <<cur>>
    ELSE IF OccursAt(s, sep, i)
         THEN <<cur>> \o SplitFrom(s, sep, i + Len(sep), <<>>)
         ELSE SplitFrom(s, sep, i + 1, Append(cur, s[i]))

\* str.split(sep) for a non-empty sep: the separator is searched left to
\* right, each search starting after the previous match
Split(s, sep) == SplitFrom(s, sep, 1, <<>>)

RECURSIVE Join(_, _)
\* sep.join(pieces)
Join(pieces, sep) ==
    IF pieces = <<>> THEN <<>>
    ELSE IF Len(pieces) = 1 THEN pieces[1]
    ELSE pieces[1] \o sep \o Join(Tail(pieces), sep)

Whitespace == {" ", "\t"}

RECURSIVE LStrip(_)
LStrip(s) == IF s # <<>> /\ Head(s) \in Whitespace THEN LStrip(Tail(s)) ELSE s

RECURSIVE RStrip(_)
RStrip(s) ==
    IF s # <<>> /\ s[Len(s)] \in Whitespace
    THEN RStrip(SubSeq(s, 1, Len(s) - 1))
    ELSE s

\* str.strip()
Strip(s) == RStrip(LStrip(s))

Digits == <<"0", "1", "2", "3", "4", "5", "6", "7", "8", "9">>

DigitValue(c) == (CHOOSE i \in 1..10 : Digits[i] = c) - 1

IsDigit(c) == \E i \in 1..10 : Digits[i] = c

\* int(key) raises ValueError on text that is no integer literal
IsIntLiteral(key) == key # <<>> /\ \A i \in 1..Len(key) : IsDigit(key[i])

RECURSIVE IntOf(_)
\* int(key) of a decimal literal
IntOf(key) ==
    IF key = <<>> THEN 0
    ELSE 10 * IntOf(SubSeq(key, 1, Len(key) - 1)) + DigitValue(key[Len(key)])

(***************************************************************************)
(* Exceptions.                                                             *)
(***************************************************************************)
NoError == [type |-> "none"]

\* ItemNotFoundException(f"Item does not exist in {table}.")
ItemNotFoundException(table) ==
    [type |-> "ItemNotFoundException",
     message |-> <<"Item does not exist in ", table, ".">>]

NoNewDataException(partition) ==
    [type |-> "NoNewDataException",
     message |-> <<"No new data for ", partition, " partition.">>]

KeyError(key) == [type |-> "KeyError", message |-> <<key>>]

ValueError(text) == [type |-> "ValueError", message |-> <<text>>]

(***************************************************************************)
(* The stores' read operations.                                            *)
(***************************************************************************)
AllAttributes == {"msgFormatDataAliasDelimiter", "msgFormatDataMessagesKeyName",
                  "msgFormatDataMessageAliasKeyName",
                  "msgFormatDataMessageQualityKeyName",
                  "msgFormatDataMessageTimestampKeyName",
                  "msgFormatDataMessageValueKeyName",
                  "uiReferenceMappingLocationKeys", "uiReferenceMappingLineKeys"}

\* dynamodb.get_item: the response carries "Item" only when the item exists,
\* and of the item only the projected attributes
GetItem(stored, projection) ==
    IF stored.exists
    THEN [Item |-> [a \in (DOMAIN stored.attrs) \cap projection |-> stored.attrs[a]]]
    ELSE [ResponseMetadata |-> "200"]

\* dynamodb.scan: one page per call; "LastEvaluatedKey" is present while
\* pages remain. start is the ExclusiveStartKey (0: none given)
Scan(table, start) ==
    IF start + 1 > Len(table) THEN [Items |-> <<>>]
    ELSE IF start + 1 < Len(table)
         THEN [Items |-> table[start + 1], LastEvaluatedKey |-> start + 1]
         ELSE [Items |-> table[start + 1]]

RECURSIVE CountPrefix(_, _)
CountPrefix(objects, prefix) ==
    IF objects = <<>> THEN 0
    ELSE (IF Head(objects).prefix = prefix THEN 1 ELSE 0)
         + CountPrefix(Tail(objects), prefix)

\* s3.list_objects_v2(Bucket, Prefix)
ListObjectsV2(objects, prefix) == [KeyCount |-> CountPrefix(objects, prefix)]

StoreOp(api, target) == [api |-> api, target |-> target]

(***************************************************************************)
(* configuration.py                                                        *)
(***************************************************************************)
\* get_medata(): the result, or the exception raised, with the reads made
get_medata ==
    LET config_get_response == GetItem(configItem, {"msgFormatDataAliasDelimiter"})
        config_item == DictGet(config_get_response, "Item", Empty)
        config_read == StoreOp("dynamodb.get_item", CONFIG_TABLE)
        ui_read == StoreOp("dynamodb.get_item", UI_REFERENCE_TABLE)
    IN  IF DOMAIN config_item = {}
        THEN [raised |-> TRUE, calls |-> <<config_read>>,
              exception |-> ItemNotFoundException(CONFIG_TABLE)]
        ELSE
          LET ui_reference_get_response ==
                  GetItem(uiRefItem, {"uiReferenceMappingLocationKeys",
                                      "uiReferenceMappingLineKeys"})
              ui_reference_item == DictGet(ui_reference_get_response, "Item", Empty)
              calls == <<config_read, ui_read>>
          IN  IF DOMAIN ui_reference_item # {}
              THEN IF "uiReferenceMappingLocationKeys" \notin DOMAIN ui_reference_item
                   THEN [raised |-> TRUE, calls |-> calls,
                         exception |-> KeyError("uiReferenceMappingLocationKeys")]
                   ELSE IF "uiReferenceMappingLineKeys" \notin DOMAIN ui_reference_item
                   THEN [raised |-> TRUE, calls |-> calls,
                         exception |-> KeyError("uiReferenceMappingLineKeys")]
                   ELSE [raised |-> FALSE, calls |-> calls,
                         delimiter |-> config_item["msgFormatDataAliasDelimiter"]["S"],
                         location_keys |-> ui_reference_item["uiReferenceMappingLocationKeys"]["S"],
                         line_keys |-> ui_reference_item["uiReferenceMappingLineKeys"]["S"]]
              ELSE [raised |-> FALSE, calls |-> calls,
                    delimiter |-> config_item["msgFormatDataAliasDelimiter"]["S"],
                    location_keys |-> Empty,
                    line_keys |-> Empty]

\* the while condition of both scans: response.get("LastEvaluatedKey", None)
HasLastEvaluatedKey(response) == "LastEvaluatedKey" \in DOMAIN response

\* the scan loop keeping only the page just read
AccumulateItems_LastPageOnly(items, response) == response["Items"]

\* the items a scan loop holds after one more page
AccumulateItems(items, response) == items \o response["Items"]

\* get_quicksight_manifest(file_name); the URI f"s3://{bucket}/{prefix}/{name}"
\* is kept in its parts
S3Uri(bucket, prefix, name) == [scheme |-> "s3", bucket |-> bucket, key |-> <<prefix, name>>]

get_quicksight_manifest_ManifestPrefix(file_name) ==
    [fileLocations |-> << [URIs |-> << S3Uri(OUTPUT_BUCKET, MANIFEST_PREFIX, file_name) >>] >>,
     globalUploadSettings |->
        [format |-> [str |-> "CSV"],
         delimiter |-> [str |-> ","],
         textqualifier |-> [str |-> "'"],
         containsHeader |-> [str |-> "true"]]]

get_quicksight_manifest(file_name) ==
    [fileLocations |-> << [URIs |-> << S3Uri(OUTPUT_BUCKET, CSV_PREFIX, file_name) >>] >>,
     globalUploadSettings |->
        [format |-> [str |-> "CSV"],
         delimiter |-> [str |-> ","],
         textqualifier |-> [str |-> "'"],
         containsHeader |-> [str |-> "true"]]]

\* the range test off by one: the last segment is never taken
KeyInRange_OffByOne(split_ids, key) == Len(split_ids) - 1 > IntOf(key)

\* the keep-or-skip test of build_location_line for one key
KeyInRange(split_ids, key) == Len(split_ids) - 1 >= IntOf(key)

RECURSIVE build_temp_list(_, _)
\* the loop of build_location_line: temp_list, or the ValueError of int(key)
build_temp_list(split_ids, keys) ==
    IF keys = <<>> THEN [raised |-> FALSE, value |-> <<>>]
    ELSE IF ~IsIntLiteral(Head(keys))
         THEN [raised |-> TRUE, exception |-> ValueError(Head(keys))]
         ELSE LET rest == build_temp_list(split_ids, Tail(keys))
                  this == IF KeyInRange(split_ids, Head(keys))
                          THEN <<split_ids[IntOf(Head(keys)) + 1]>>
                          ELSE <<>>
              IN  IF rest.raised THEN rest
                  ELSE [raised |-> FALSE, value |-> this \o rest.value]

build_location_line(split_ids, keys, delim) ==
    LET temp_list == build_temp_list(split_ids, keys)
    IN  IF temp_list.raised THEN temp_list
        ELSE [raised |-> FALSE, value |-> Join(temp_list.value, delim)]

\* the key string split without the test for an empty string
SplitKeys_NoEmptyTest(keys) == Split(keys, <<"/">>)

\* main(), lines 249-255: the position lists of the two key strings
SplitKeys(keys) == IF keys # <<>> THEN Split(keys, <<"/">>) ELSE <<>>

\* main(), lines 258-264: the CSV row of one scanned machine item
ReferenceRow(item, delim, split_location_keys, split_line_keys) ==
    LET machine_id == item["id"]["S"]
        name == DictGet(DictGet(item, "name", Empty), "S", machine_id)
        split_ids == Split(machine_id, delim)
        location == build_location_line(split_ids, split_location_keys, delim)
        line == build_location_line(split_ids, split_line_keys, delim)
    IN  IF location.raised THEN location
        ELSE IF line.raised THEN line
        ELSE [raised |-> FALSE,
              value |-> [id |-> machine_id, machine_name |-> name,
                         location |-> location.value, line |-> line.value]]

RECURSIVE ReferenceRows(_, _, _, _)
\* main(), lines 257-264: the rows of all scanned machine items
ReferenceRows(items, delim, split_location_keys, split_line_keys) ==
    IF items = <<>> THEN [raised |-> FALSE, value |-> <<>>]
    ELSE LET first == ReferenceRow(Head(items), delim, split_location_keys, split_line_keys)
         IN  IF first.raised THEN first
             ELSE LET rest == ReferenceRows(Tail(items), delim,
                                            split_location_keys, split_line_keys)
                  IN  IF rest.raised THEN rest
                      ELSE [raised |-> FALSE, value |-> <<first.value>> \o rest.value]

RECURSIVE StripAll(_)
StripAll(pieces) ==
    IF pieces = <<>> THEN <<>> ELSE <<Strip(Head(pieces))>> \o StripAll(Tail(pieces))

\* the pieces left untrimmed
SplitDownValues_NoStrip(down_value) == Split(down_value, <<",">>)

\* main(), lines 291-294: the down values of one down-value string
SplitDownValues(down_value) == StripAll(Split(down_value, <<",">>))

\* main(), lines 288-294: the CSV rows of one scanned config item
ConfigRowsOf(item) ==
    LET machine_id == item["id"]["S"]
        status_tag == DictGet(DictGet(item, "machineStatusTagName", Empty), "S", Empty)
        down_value == DictGet(DictGet(item, "machineStatusDownValue", Empty), "S", Empty)
        vals == SplitDownValues(down_value)
    IN  [i \in 1..Len(vals) |->
            [id |-> machine_id, status_tag |-> status_tag, down_value |-> vals[i]]]

RECURSIVE ConfigRows(_)
\* main(), lines 287-294
ConfigRows(items) ==
    IF items = <<>> THEN <<>> ELSE ConfigRowsOf(Head(items)) \o ConfigRows(Tail(items))

\* put_object_to_s3_bucket(body, key): the object as the bucket then holds it
PutObject(body, key) == [Bucket |-> OUTPUT_BUCKET, Key |-> key, Body |-> body]

CsvKey(file_name) == <<CSV_PREFIX, file_name>>

ManifestKey(file_name) == <<MANIFEST_PREFIX, file_name>>

(***************************************************************************)
(* convert_parquet.py                                                      *)
(***************************************************************************)
\* has_new_s3_data() listing the bucket without the Prefix argument
has_new_s3_data_NoPrefix ==
    LET response == [KeyCount |-> Len(inputObjects)]
    IN  response["KeyCount"] > 0

\* has_new_s3_data()
has_new_s3_data ==
    LET response == ListObjectsV2(inputObjects, PARTITION)
    IN  response["KeyCount"] > 0

MetadataAttributes ==
    <<"msgFormatDataAliasDelimiter", "msgFormatDataMessagesKeyName",
      "msgFormatDataMessageAliasKeyName", "msgFormatDataMessageQualityKeyName",
      "msgFormatDataMessageTimestampKeyName", "msgFormatDataMessageValueKeyName">>

\* get_metadata() without the test for a missing item: the first attribute
\* read raises KeyError
get_metadata_NoItemTest ==
    LET config_get_response == GetItem(configItem, AllAttributes)
        config_item == DictGet(config_get_response, "Item", Empty)
    IN  IF "msgFormatDataAliasDelimiter" \notin DOMAIN config_item
        THEN [raised |-> TRUE, exception |-> KeyError("msgFormatDataAliasDelimiter")]
        ELSE [raised |-> FALSE,
              value |->
                [Delimiter |-> config_item["msgFormatDataAliasDelimiter"]["S"],
                 MessagesKeyName |-> config_item["msgFormatDataMessagesKeyName"]["S"],
                 MessageAliasKeyName |-> config_item["msgFormatDataMessageAliasKeyName"]["S"],
                 MessageQualityKeyName |-> config_item["msgFormatDataMessageQualityKeyName"]["S"],
                 MessageTimestampKeyName |-> config_item["msgFormatDataMessageTimestampKeyName"]["S"],
                 MessageValueKeyName |-> config_item["msgFormatDataMessageValueKeyName"]["S"]]]

\* get_metadata(): the metadata dict, or the exception raised
get_metadata ==
    LET config_get_response == GetItem(configItem, AllAttributes)
        config_item == DictGet(config_get_response, "Item", Empty)
        missing == {i \in 1..Len(MetadataAttributes) :
                        MetadataAttributes[i] \notin DOMAIN config_item}
    IN  IF DOMAIN config_item = {}
        THEN [raised |-> TRUE, exception |-> ItemNotFoundException(CONFIG_TABLE)]
        ELSE IF missing # {}
        THEN [raised |-> TRUE,
              exception |-> KeyError(MetadataAttributes[
                                CHOOSE i \in missing : \A j \in missing : i <= j])]
        ELSE [raised |-> FALSE,
              value |->
                [Delimiter |-> config_item["msgFormatDataAliasDelimiter"]["S"],
                 MessagesKeyName |-> config_item["msgFormatDataMessagesKeyName"]["S"],
                 MessageAliasKeyName |-> config_item["msgFormatDataMessageAliasKeyName"]["S"],
                 MessageQualityKeyName |-> config_item["msgFormatDataMessageQualityKeyName"]["S"],
                 MessageTimestampKeyName |-> config_item["msgFormatDataMessageTimestampKeyName"]["S"],
                 MessageValueKeyName |-> config_item["msgFormatDataMessageValueKeyName"]["S"]]]

\* the alias split at the first delimiter: the id is the first piece, the
\* tag the rest
DecomposeAlias_FirstDelimiter(name, delim) ==
    LET ids == Split(name, delim)
    IN  IF Len(ids) = 1 THEN [id |-> <<>>, tag |-> ids[1]]
        ELSE [id |-> ids[1], tag |-> Join(Tail(ids), delim)]

\* convert_data_format, lines 122-127: ids = name.split(delimiter);
\* tag = ids.pop(); id = delimiter.join(ids)
DecomposeAlias(name, delim) ==
    LET ids == Split(name, delim)
        tag == ids[Len(ids)]
        popped == SubSeq(ids, 1, Len(ids) - 1)
    IN  [id |-> Join(popped, delim), tag |-> tag]

\* dateutil's parser.parse followed by strftime("%Y/%m/%d %H:%M:%S.%f"), on
\* the timestamps the model's messages carry; any other text does not parse
KnownTimestamps ==
    [in |-> <<"2021-03-04T05:06:07Z", "03/04/2021 05:06:07.5">>,
     out |-> <<"2021/03/04 05:06:07.000000", "2021/03/04 05:06:07.500000">>]

CanParseTimestamp(ts) == \E i \in 1..Len(KnownTimestamps.in) : KnownTimestamps.in[i] = ts

FormatTimestamp(ts) ==
    KnownTimestamps.out[CHOOSE i \in 1..Len(KnownTimestamps.in) : KnownTimestamps.in[i] = ts]

ParserError(ts) == [type |-> "ParserError", message |-> <<ts>>]

\* str(value) of a JSON primitive
PyStr(v) ==
    IF "str" \in DOMAIN v THEN v["str"]
    ELSE IF "bool" \in DOMAIN v
         THEN (IF v["bool"] THEN <<"T", "r", "u", "e">> ELSE <<"F", "a", "l", "s", "e">>)
         ELSE <<Digits[v["int"] + 1]>>

\* convert_data_format, lines 122-133: one message
ConvertMessage(message) ==
    IF message_alias_key_name \notin DOMAIN message
    THEN [raised |-> TRUE, exception |-> KeyError(message_alias_key_name)]
    ELSE IF delimiter = <<>>
    THEN [raised |-> TRUE, exception |-> ValueError("empty separator")]
    ELSE IF message_timestamp_key_name \notin DOMAIN message
    THEN [raised |-> TRUE, exception |-> KeyError(message_timestamp_key_name)]
    ELSE IF ~CanParseTimestamp(message[message_timestamp_key_name])
    THEN [raised |-> TRUE, exception |-> ParserError(message[message_timestamp_key_name])]
    ELSE IF message_quality_key_name \notin DOMAIN message
    THEN [raised |-> TRUE, exception |-> KeyError(message_quality_key_name)]
    ELSE IF message_value_key_name \notin DOMAIN message
    THEN [raised |-> TRUE, exception |-> KeyError(message_value_key_name)]
    ELSE LET alias == DecomposeAlias(message[message_alias_key_name], delimiter)
         IN  [raised |-> FALSE,
              value |-> [id |-> alias.id,
                         tag |-> alias.tag,
                         timestamp |-> FormatTimestamp(message[message_timestamp_key_name]),
                         quality |-> message[message_quality_key_name],
                         value |-> PyStr(message[message_value_key_name])]]

RECURSIVE ConvertMessages_Prepending(_)
\* the loop putting each converted message in front of the earlier ones
ConvertMessages_Prepending(messages) ==
    IF messages = <<>> THEN [raised |-> FALSE, value |-> <<>>]
    ELSE LET first == ConvertMessage(Head(messages))
         IN  IF first.raised THEN first
             ELSE LET rest == ConvertMessages_Prepending(Tail(messages))
                  IN  IF rest.raised THEN rest
                      ELSE [raised |-> FALSE, value |-> rest.value \o <<first.value>>]

RECURSIVE ConvertMessages(_)
\* convert_data_format, lines 119-133: the loop over the messages
ConvertMessages(messages) ==
    IF messages = <<>> THEN [raised |-> FALSE, value |-> <<>>]
    ELSE LET first == ConvertMessage(Head(messages))
         IN  IF first.raised THEN first
             ELSE LET rest == ConvertMessages(Tail(messages))
                  IN  IF rest.raised THEN rest
                      ELSE [raised |-> FALSE, value |-> <<first.value>> \o rest.value]

\* convert_data_format(record)
convert_data_format(record) ==
    IF messages_key_name \notin DOMAIN record
    THEN [raised |-> TRUE, exception |-> KeyError(messages_key_name)]
    ELSE LET return_messages == ConvertMessages(record[messages_key_name])
         IN  IF return_messages.raised THEN return_messages
             ELSE [raised |-> FALSE, value |-> [messages |-> return_messages.value]]

RECURSIVE Explode(_)
\* main(), line 187: explode(col("messages")) then select("collection.*")
Explode(converted) ==
    IF converted = <<>> THEN <<>>
    ELSE Head(converted)["messages"] \o Explode(Tail(converted))

RECURSIVE MapApply(_)
\* main(), line 183: Map.apply(frame, convert_data_format), record by record
MapApply(frame) ==
    IF frame = <<>> THEN [raised |-> FALSE, value |-> <<>>]
    ELSE LET first == convert_data_format(Head(frame))
         IN  IF first.raised THEN first
             ELSE LET rest == MapApply(Tail(frame))
                  IN  IF rest.raised THEN rest
                      ELSE [raised |-> FALSE, value |-> <<first.value>> \o rest.value]

\* main(), lines 183-188: the converted frame and its flattened rows
ConvertAndExplode(frame) ==
    LET converted == MapApply(frame)
    IN  IF converted.raised THEN converted
        ELSE [raised |-> FALSE, converted |-> converted.value,
              value |-> Explode(converted.value)]

RECURSIVE RecordsUnder(_, _)
\* main(), lines 159-168: the records of the objects under the partition
RecordsUnder(objects, prefix) ==
    IF objects = <<>> THEN <<>>
    ELSE (IF Head(objects).prefix = prefix THEN <<Head(objects).record>> ELSE <<>>)
         \o RecordsUnder(Tail(objects), prefix)

WriteError == [type |-> "WriteError", message |-> <<OUTPUT_BUCKET>>]

(***************************************************************************)
(* The contents the stores may have when a run starts.                     *)
(***************************************************************************)
\* all sequences over S of length lo..hi
SeqsBetween(S, lo, hi) == UNION {[1..n -> S] : n \in lo..hi}

NoItem == [exists |-> FALSE, attrs |-> Empty]

MessageFormatItem(delim, messagesKey) ==
    [exists |-> TRUE,
     attrs |-> [msgFormatDataAliasDelimiter |-> [S |-> delim],
                msgFormatDataMessagesKeyName |-> [S |-> messagesKey],
                msgFormatDataMessageAliasKeyName |-> [S |-> "name"],
                msgFormatDataMessageQualityKeyName |-> [S |-> "quality"],
                msgFormatDataMessageTimestampKeyName |-> [S |-> "timestamp"],
                msgFormatDataMessageValueKeyName |-> [S |-> "value"]]]

ConfigItemChoices ==
    {NoItem,
     MessageFormatItem(<<"/">>, "messages"),
     MessageFormatItem(<<"/", "/">>, "messages"),
     MessageFormatItem(<<"/">>, "msgs")}

UiReferenceMapping(location, line) ==
    [exists |-> TRUE,
     attrs |-> [uiReferenceMappingLocationKeys |-> [S |-> location],
                uiReferenceMappingLineKeys |-> [S |-> line]]]

UiRefItemChoices ==
    {NoItem,
     [exists |-> TRUE, attrs |-> Empty],
     [exists |-> TRUE, attrs |-> [uiReferenceMappingLocationKeys |-> [S |-> <<"0">>]]],
     UiReferenceMapping(<<"0">>, <<"1">>),
     UiReferenceMapping(<<"1", "/", "0">>, <<"3">>),
     UiReferenceMapping(<<"0", "/">>, Empty)}

MachineItems ==
    << [id |-> [S |-> <<"a", "/", "b">>], name |-> [S |-> <<"M">>]],
       [id |-> [S |-> <<"c">>]],
       [id |-> [S |-> <<"a", "/", "/", "b", "/", "c">>], name |-> [S |-> <<"N">>]] >>

UiPageChoices ==
    {<<>>, <<MachineItems[1]>>, <<MachineItems[2], MachineItems[3]>>}

MachineConfigItems ==
    << [id |-> [S |-> <<"a", "/", "b">>],
        machineStatusTagName |-> [S |-> <<"s">>],
        machineStatusDownValue |-> [S |-> <<"1", ",", " ", "2">>]],
       [id |-> [S |-> <<"c">>]],
       [id |-> [S |-> <<"d">>],
        machineStatusDownValue |-> [S |-> Empty]] >>

CfgPageChoices ==
    {<<>>, <<MachineConfigItems[1]>>, <<MachineConfigItems[2], MachineConfigItems[3]>>}

Messages ==
    << [name |-> <<"a", "/", "b", "/", "t">>, timestamp |-> "2021-03-04T05:06:07Z",
        quality |-> [int |-> 1], value |-> [int |-> 7]],
       [name |-> <<"t">>, timestamp |-> "03/04/2021 05:06:07.5",
        quality |-> [str |-> <<"G">>], value |-> [bool |-> TRUE]],
       [name |-> <<"a", "/", "/", "/", "t">>, timestamp |-> "not a date",
        quality |-> [int |-> 0], value |-> [str |-> <<"o", "n">>]] >>

RecordChoices ==
    {[messages |-> <<>>],
     [messages |-> <<Messages[1]>>],
     [messages |-> <<Messages[2], Messages[1]>>],
     [messages |-> <<Messages[3]>>]}

InputObjectChoices == [prefix : {PARTITION, OTHER_PARTITION}, record : RecordChoices]

\* the script variables before main() assigns them
UnsetScriptVars ==
    /\ delimiter = Empty
    /\ location_keys = Empty
    /\ line_keys = Empty
    /\ scan_response = Empty
    /\ ui_reference_scan_items = Empty
    /\ reference_csv_body = Empty
    /\ config_scan_items = Empty
    /\ config_csv_body = Empty
    /\ messages_key_name = ""
    /\ message_alias_key_name = ""
    /\ message_quality_key_name = ""
    /\ message_timestamp_key_name = ""
    /\ message_value_key_name = ""
    /\ raw_json_data = Empty
    /\ converted_json_data = Empty
    /\ mapped_data = Empty

RunStart ==
    /\ pc = "start"
    /\ error = NoError
    /\ ops = <<>>
    /\ s3out = <<>>
    /\ bookmark = FALSE
    /\ UnsetScriptVars

InitConfiguration ==
    /\ job = "configuration"
    /\ configItem \in ConfigItemChoices
    /\ uiRefItem \in UiRefItemChoices
    /\ uiTable \in SeqsBetween(UiPageChoices, 0, MaxPages)
    /\ cfgTable \in SeqsBetween(CfgPageChoices, 0, MaxPages)
    /\ inputObjects = <<>>
    /\ fn_in = Empty
    /\ fn_out = Empty
    /\ RunStart

InitConvertParquet ==
    /\ job = "convert_parquet"
    /\ configItem \in ConfigItemChoices
    /\ uiRefItem = NoItem
    /\ uiTable = <<>>
    /\ cfgTable = <<>>
    /\ inputObjects \in SeqsBetween(InputObjectChoices, 0, MaxObjects)
    /\ fn_in = Empty
    /\ fn_out = Empty
    /\ RunStart

Init == InitConfiguration \/ InitConvertParquet

Raise(exception) ==
    /\ pc' = "failed"
    /\ error' = exception

(***************************************************************************)
(* configuration.py main()                                                 *)
(***************************************************************************)
\* lines 236-239
CfgGetMedata ==
    /\ job = "configuration" /\ pc = "start"
    /\ LET metadata == get_medata
       IN  /\ ops' = ops \o metadata.calls
           /\ IF metadata.raised
              THEN /\ Raise(metadata.exception)
                   /\ UNCHANGED <<delimiter, location_keys, line_keys>>
              ELSE /\ delimiter' = metadata.delimiter
                   /\ location_keys' = metadata.location_keys
                   /\ line_keys' = metadata.line_keys
                   /\ pc' = "scan_ui"
                   /\ UNCHANGED error
    /\ UNCHANGED <<job, storeVars, s3out, bookmark, scan_response,
                   ui_reference_scan_items, reference_csv_body, config_scan_items,
                   config_csv_body, schemaKeyVars, convertJobVars, fnVars>>

\* scan_ui_reference_table, lines 102-114: the first page
ScanUiFirst ==
    /\ job = "configuration" /\ pc = "scan_ui"
    /\ scan_response' = Scan(uiTable, 0)
    /\ ui_reference_scan_items' = scan_response'["Items"]
    /\ ops' = Append(ops, StoreOp("dynamodb.scan", UI_REFERENCE_TABLE))
    /\ pc' = "scan_ui_loop"
    /\ UNCHANGED <<job, error, storeVars, s3out, bookmark, delimiter, location_keys,
                   line_keys, reference_csv_body, config_scan_items,
                   config_csv_body, schemaKeyVars, convertJobVars, fnVars>>

\* scan_ui_reference_table, lines 116-130: one more page
ScanUiNext ==
    /\ job = "configuration" /\ pc = "scan_ui_loop"
    /\ HasLastEvaluatedKey(scan_response)
    /\ scan_response' = Scan(uiTable, scan_response["LastEvaluatedKey"])
    /\ ui_reference_scan_items' = AccumulateItems(ui_reference_scan_items, scan_response')
    /\ ops' = Append(ops, StoreOp("dynamodb.scan", UI_REFERENCE_TABLE))
    /\ UNCHANGED <<job, pc, error, storeVars, s3out, bookmark, delimiter,
                   location_keys, line_keys, reference_csv_body, config_scan_items,
                   config_csv_body, schemaKeyVars, convertJobVars, fnVars>>

\* lines 132, 243-264: the scan returns and the reference CSV body is built
BuildReferenceCsv ==
    /\ job = "configuration" /\ pc = "scan_ui_loop"
    /\ ~HasLastEvaluatedKey(scan_response)
    /\ LET rows == ReferenceRows(ui_reference_scan_items, delimiter,
                                 SplitKeys(location_keys), SplitKeys(line_keys))
       IN  IF rows.raised
           THEN /\ Raise(rows.exception)
                /\ UNCHANGED reference_csv_body
           ELSE /\ reference_csv_body' =
                       [header |-> <<"id", "machine_name", "location", "line">>,
                        rows |-> rows.value]
                /\ pc' = "put_reference_csv"
                /\ UNCHANGED error
    /\ UNCHANGED <<job, ops, storeVars, s3out, bookmark, delimiter, location_keys,
                   line_keys, scan_response, ui_reference_scan_items,
                   config_scan_items, config_csv_body, schemaKeyVars,
                   convertJobVars, fnVars>>

\* the reference CSV put before the ui-reference table is scanned
PutReferenceCsv_BeforeScan ==
    /\ job = "configuration" /\ pc = "scan_ui" /\ s3out = <<>>
    /\ s3out' = Append(s3out, PutObject([csv |-> reference_csv_body],
                                        CsvKey(MACHINE_INFORMATION_CSV)))
    /\ ops' = Append(ops, StoreOp("s3.put_object", OUTPUT_BUCKET))
    /\ UNCHANGED <<job, pc, error, storeVars, bookmark, delimiter, configJobVars,
                   schemaKeyVars, convertJobVars, fnVars>>

\* lines 267-270
PutReferenceCsv ==
    /\ job = "configuration" /\ pc = "put_reference_csv"
    /\ s3out' = Append(s3out, PutObject([csv |-> reference_csv_body],
                                        CsvKey(MACHINE_INFORMATION_CSV)))
    /\ ops' = Append(ops, StoreOp("s3.put_object", OUTPUT_BUCKET))
    /\ pc' = "put_reference_manifest"
    /\ UNCHANGED <<job, error, storeVars, bookmark, delimiter, configJobVars,
                   schemaKeyVars, convertJobVars, fnVars>>

\* lines 274-278
PutReferenceManifest ==
    /\ job = "configuration" /\ pc = "put_reference_manifest"
    /\ LET machine_information_manifest == get_quicksight_manifest(MACHINE_INFORMATION_CSV)
       IN  s3out' = Append(s3out, PutObject([json |-> machine_information_manifest],
                                            ManifestKey(MACHINE_INFORMATION_MANIFEST)))
    /\ ops' = Append(ops, StoreOp("s3.put_object", OUTPUT_BUCKET))
    /\ pc' = "scan_config"
    /\ UNCHANGED <<job, error, storeVars, bookmark, delimiter, configJobVars,
                   schemaKeyVars, convertJobVars, fnVars>>

\* scan_config_table, lines 142-153: the first page
ScanConfigFirst ==
    /\ job = "configuration" /\ pc = "scan_config"
    /\ scan_response' = Scan(cfgTable, 0)
    /\ config_scan_items' = scan_response'["Items"]
    /\ ops' = Append(ops, StoreOp("dynamodb.scan", CONFIG_TABLE))
    /\ pc' = "scan_config_loop"
    /\ UNCHANGED <<job, error, storeVars, s3out, bookmark, delimiter, location_keys,
                   line_keys, ui_reference_scan_items, reference_csv_body,
                   config_csv_body, schemaKeyVars, convertJobVars, fnVars>>

\* scan_config_table, lines 155-168: one more page
ScanConfigNext ==
    /\ job = "configuration" /\ pc = "scan_config_loop"
    /\ HasLastEvaluatedKey(scan_response)
    /\ scan_response' = Scan(cfgTable, scan_response["LastEvaluatedKey"])
    /\ config_scan_items' = AccumulateItems(config_scan_items, scan_response')
    /\ ops' = Append(ops, StoreOp("dynamodb.scan", CONFIG_TABLE))
    /\ UNCHANGED <<job, pc, error, storeVars, s3out, bookmark, delimiter,
                   location_keys, line_keys, ui_reference_scan_items,
                   reference_csv_body, config_csv_body, schemaKeyVars,
                   convertJobVars, fnVars>>

\* lines 170, 282-294: the scan returns and the config CSV body is built
BuildConfigCsv ==
    /\ job = "configuration" /\ pc = "scan_config_loop"
    /\ ~HasLastEvaluatedKey(scan_response)
    /\ config_csv_body' = [header |-> <<"id", "status_tag", "down_value">>,
                           rows |-> ConfigRows(config_scan_items)]
    /\ pc' = "put_config_csv"
    /\ UNCHANGED <<job, error, ops, storeVars, s3out, bookmark, delimiter,
                   location_keys, line_keys, scan_response, ui_reference_scan_items,
                   reference_csv_body, config_scan_items, schemaKeyVars,
                   convertJobVars, fnVars>>

\* lines 297-300
PutConfigCsv ==
    /\ job = "configuration" /\ pc = "put_config_csv"
    /\ s3out' = Append(s3out, PutObject([csv |-> config_csv_body],
                                        CsvKey(MACHINE_CONFIG_INFORMATION_CSV)))
    /\ ops' = Append(ops, StoreOp("s3.put_object", OUTPUT_BUCKET))
    /\ pc' = "put_config_manifest"
    /\ UNCHANGED <<job, error, storeVars, bookmark, delimiter, configJobVars,
                   schemaKeyVars, convertJobVars, fnVars>>

\* lines 304-310
PutConfigManifest ==
    /\ job = "configuration" /\ pc = "put_config_manifest"
    /\ LET machine_config_information_manifest ==
               get_quicksight_manifest(MACHINE_CONFIG_INFORMATION_CSV)
       IN  s3out' = Append(s3out, PutObject([json |-> machine_config_information_manifest],
                                            ManifestKey(MACHINE_CONFIG_INFORMATION_MANIFEST)))
    /\ ops' = Append(ops, StoreOp("s3.put_object", OUTPUT_BUCKET))
    /\ pc' = "done"
    /\ UNCHANGED <<job, error, storeVars, bookmark, delimiter, configJobVars,
                   schemaKeyVars, convertJobVars, fnVars>>

(***************************************************************************)
(* convert_parquet.py main()                                               *)
(***************************************************************************)
\* lines 156, 201-203: the partition check and, with no new data, the raise
CheckNewData ==
    /\ job = "convert_parquet" /\ pc = "start"
    /\ ops' = Append(ops, StoreOp("s3.list_objects_v2", INPUT_BUCKET))
    /\ IF has_new_s3_data
       THEN /\ pc' = "read_raw"
            /\ UNCHANGED error
       ELSE Raise(NoNewDataException(PARTITION))
    /\ UNCHANGED <<job, storeVars, s3out, bookmark, delimiter, configJobVars,
                   schemaKeyVars, convertJobVars, fnVars>>

\* lines 159-168
ReadRawData ==
    /\ job = "convert_parquet" /\ pc = "read_raw"
    /\ raw_json_data' = RecordsUnder(inputObjects, PARTITION)
    /\ ops' = Append(ops, StoreOp("glue.read", INPUT_BUCKET))
    /\ pc' = "get_metadata"
    /\ UNCHANGED <<job, error, storeVars, s3out, bookmark, delimiter, configJobVars,
                   schemaKeyVars, converted_json_data, mapped_data, fnVars>>

\* lines 172-178
ResolveMetadata ==
    /\ job = "convert_parquet" /\ pc = "get_metadata"
    /\ ops' = Append(ops, StoreOp("dynamodb.get_item", CONFIG_TABLE))
    /\ LET metadata == get_metadata
       IN  IF metadata.raised
           THEN /\ Raise(metadata.exception)
                /\ UNCHANGED <<delimiter, schemaKeyVars>>
           ELSE /\ delimiter' = metadata.value["Delimiter"]
                /\ messages_key_name' = metadata.value["MessagesKeyName"]
                /\ message_alias_key_name' = metadata.value["MessageAliasKeyName"]
                /\ message_quality_key_name' = metadata.value["MessageQualityKeyName"]
                /\ message_timestamp_key_name' = metadata.value["MessageTimestampKeyName"]
                /\ message_value_key_name' = metadata.value["MessageValueKeyName"]
                /\ pc' = "convert"
                /\ UNCHANGED error
    /\ UNCHANGED <<job, storeVars, s3out, bookmark, configJobVars, convertJobVars,
                   fnVars>>

\* convert_data_format rebinding the module's delimiter while it converts
ConvertRecord_RebindsDelimiter ==
    /\ job = "convert_parquet" /\ pc = "convert"
    /\ Len(converted_json_data) < Len(raw_json_data)
    /\ LET converted == convert_data_format(raw_json_data[Len(converted_json_data) + 1])
       IN  IF converted.raised
           THEN /\ Raise(converted.exception)
                /\ UNCHANGED converted_json_data
           ELSE /\ converted_json_data' = Append(converted_json_data, converted.value)
                /\ UNCHANGED <<pc, error>>
    /\ delimiter' = <<"/">>
    /\ UNCHANGED <<job, ops, storeVars, s3out, bookmark, configJobVars,
                   schemaKeyVars, raw_json_data, mapped_data, fnVars>>

\* line 183: Map.apply calls convert_data_format on the next record
ConvertRecord ==
    /\ job = "convert_parquet" /\ pc = "convert"
    /\ Len(converted_json_data) < Len(raw_json_data)
    /\ LET converted == convert_data_format(raw_json_data[Len(converted_json_data) + 1])
       IN  IF converted.raised
           THEN /\ Raise(converted.exception)
                /\ UNCHANGED converted_json_data
           ELSE /\ converted_json_data' = Append(converted_json_data, converted.value)
                /\ UNCHANGED <<pc, error>>
    /\ UNCHANGED <<job, ops, storeVars, s3out, bookmark, delimiter, configJobVars,
                   schemaKeyVars, raw_json_data, mapped_data, fnVars>>

\* lines 187-188
FlattenMessages ==
    /\ job = "convert_parquet" /\ pc = "convert"
    /\ Len(converted_json_data) = Len(raw_json_data)
    /\ mapped_data' = Explode(converted_json_data)
    /\ pc' = "write_parquet"
    /\ UNCHANGED <<job, error, ops, storeVars, s3out, bookmark, delimiter,
                   configJobVars, schemaKeyVars, raw_json_data, converted_json_data,
                   fnVars>>

\* lines 192-200: the write succeeds, or fails and its error propagates
WriteParquet ==
    /\ job = "convert_parquet" /\ pc = "write_parquet"
    /\ ops' = Append(ops, StoreOp("glue.write", OUTPUT_BUCKET))
    /\ \/ /\ s3out' = Append(s3out, [Bucket |-> OUTPUT_BUCKET, Key |-> <<PARTITION>>,
                                     Body |-> [parquet |-> mapped_data]])
          /\ pc' = "commit"
          /\ UNCHANGED error
       \/ /\ Raise(WriteError)
          /\ UNCHANGED s3out
    /\ UNCHANGED <<job, storeVars, bookmark, delimiter, configJobVars, schemaKeyVars,
                   convertJobVars, fnVars>>

\* job.commit() moved ahead of the write of the parquet output
CommitBookmark_BeforeWrite ==
    /\ job = "convert_parquet" /\ pc = "write_parquet" /\ ~bookmark
    /\ bookmark' = TRUE
    /\ ops' = Append(ops, StoreOp("job.commit", "bookmark"))
    /\ UNCHANGED <<job, pc, error, storeVars, s3out, delimiter, configJobVars,
                   schemaKeyVars, convertJobVars, fnVars>>

\* lines 206-207
CommitBookmark ==
    /\ job = "convert_parquet" /\ pc = "commit"
    /\ bookmark' = TRUE
    /\ ops' = Append(ops, StoreOp("job.commit", "bookmark"))
    /\ pc' = "done"
    /\ UNCHANGED <<job, error, storeVars, s3out, delimiter, configJobVars,
                   schemaKeyVars, convertJobVars, fnVars>>

Next ==
    \/ CfgGetMedata
    \/ ScanUiFirst
    \/ ScanUiNext
    \/ BuildReferenceCsv
    \/ PutReferenceCsv
    \/ PutReferenceManifest
    \/ ScanConfigFirst
    \/ ScanConfigNext
    \/ BuildConfigCsv
    \/ PutConfigCsv
    \/ PutConfigManifest
    \/ CheckNewData
    \/ ReadRawData
    \/ ResolveMetadata
    \/ ConvertRecord
    \/ FlattenMessages
    \/ WriteParquet
    \/ CommitBookmark

Spec == Init /\ [][Next]_vars

(***************************************************************************)
(* The text functions applied on their own, each to every input of a       *)
(* bounded set.                                                            *)
(***************************************************************************)
NoRun ==
    /\ job = "none"
    /\ pc = "apply"
    /\ configItem = NoItem
    /\ uiRefItem = NoItem
    /\ uiTable = <<>>
    /\ cfgTable = <<>>
    /\ inputObjects = <<>>
    /\ error = NoError
    /\ ops = <<>>
    /\ s3out = <<>>
    /\ bookmark = FALSE
    /\ UnsetScriptVars
    /\ fn_out = Empty

Applied(result) ==
    /\ pc = "apply"
    /\ fn_out' = result
    /\ pc' = "applied"
    /\ UNCHANGED <<job, error, ops, storeVars, s3out, bookmark, delimiter,
                   configJobVars, schemaKeyVars, convertJobVars, fn_in>>

AliasAlphabet == {"a", "/"}

DelimiterChoices == {<<"/">>, <<"/", "/">>, <<"a", "/">>}

InitAlias ==
    /\ NoRun
    /\ fn_in \in [name : SeqsBetween(AliasAlphabet, 0, MaxAliasLen),
                  delimiter : DelimiterChoices]

ApplyDecomposeAlias ==
    /\ job = "none"
    /\ Applied(DecomposeAlias(fn_in.name, fn_in.delimiter))

SpecAlias == InitAlias /\ [][ApplyDecomposeAlias]_vars

SegmentChoices == {<<"a">>, <<"b">>}

PositionChoices == {<<"0">>, <<"1">>, <<"2">>, <<"3">>, <<"1", "0">>}

InitLocation ==
    /\ NoRun
    /\ fn_in \in [split_ids : SeqsBetween(SegmentChoices, 0, MaxSegments),
                  keys : SeqsBetween(PositionChoices, 0, MaxKeys),
                  delimiter : {<<"/">>}]

ApplyBuildLocationLine ==
    /\ job = "none"
    /\ Applied(build_location_line(fn_in.split_ids, fn_in.keys, fn_in.delimiter))

SpecLocation == InitLocation /\ [][ApplyBuildLocationLine]_vars

DownValueAlphabet == {"1", " ", ","}

DownValueItem(down_value) ==
    [id |-> [S |-> <<"m">>],
     machineStatusTagName |-> [S |-> <<"s">>],
     machineStatusDownValue |-> [S |-> down_value]]

InitDownValue ==
    /\ NoRun
    /\ fn_in \in {DownValueItem(v) : v \in SeqsBetween(DownValueAlphabet, 0, MaxDownLen)}
                 \cup {[id |-> [S |-> <<"m">>]]}

ApplyConfigRowsOf ==
    /\ job = "none"
    /\ Applied(ConfigRowsOf(fn_in))

SpecDownValue == InitDownValue /\ [][ApplyConfigRowsOf]_vars

(***************************************************************************)
(* Properties.                                                             *)
(***************************************************************************)
ApiCalls(api, target) ==
    {i \in DOMAIN ops : ops[i].api = api /\ ops[i].target = target}

ObjectsUnderPartition == {i \in DOMAIN inputObjects : inputObjects[i].prefix = PARTITION}

SchemaFields ==
    <<delimiter, messages_key_name, message_alias_key_name,
      message_quality_key_name, message_timestamp_key_name, message_value_key_name>>

SchemaUnset == SchemaFields = <<Empty, "", "", "", "", "">>

\* C1: in the conversion job the partition existence check is the first
\* store operation of a run; when no object lies under the partition prefix
\* the run ends with NoNewDataException, the check being its only store
\* operation: no raw data read, no schema metadata read, no record
\* converted, no output written, no bookmark committed; and the run goes on
\* past the check exactly when at least one object lies under the prefix.
C1_PartitionGate ==
    job = "convert_parquet" =>
        /\ ops # <<>> => ops[1] = StoreOp("s3.list_objects_v2", INPUT_BUCKET)
        /\ pc # "start" =>
             /\ error.type = "NoNewDataException" <=> ObjectsUnderPartition = {}
             /\ ObjectsUnderPartition = {} =>
                  /\ pc = "failed"
                  /\ ops = <<StoreOp("s3.list_objects_v2", INPUT_BUCKET)>>
                  /\ raw_json_data = Empty
                  /\ SchemaUnset
                  /\ converted_json_data = Empty
                  /\ mapped_data = Empty
                  /\ s3out = <<>>
                  /\ ~bookmark

\* a run of the conversion job ended by the gate although the bucket holds
\* objects (under another partition)
C1_Witness ==
    /\ job = "convert_parquet"
    /\ pc = "failed"
    /\ error.type = "NoNewDataException"
    /\ Len(inputObjects) = 2

RECURSIVE SumLen(_, _)
\* the number of items of the first n pages
SumLen(pages, n) == IF n = 0 THEN 0 ELSE SumLen(pages, n - 1) + Len(pages[n])

\* items holds the items of the pages, page after page, each page in its order
CollectsAllPages(items, pages) ==
    /\ Len(items) = SumLen(pages, Len(pages))
    /\ \A p \in DOMAIN pages : \A k \in DOMAIN pages[p] :
           items[SumLen(pages, p - 1) + k] = pages[p][k]

UiScanReturned ==
    /\ job = "configuration"
    /\ \/ pc = "scan_ui_loop" /\ ~HasLastEvaluatedKey(scan_response)
       \/ pc \in {"put_reference_csv", "put_reference_manifest", "scan_config",
                  "scan_config_loop", "put_config_csv", "put_config_manifest", "done"}
       \/ pc = "failed" /\ error.type = "ValueError"

ConfigScanReturned ==
    /\ job = "configuration"
    /\ \/ pc = "scan_config_loop" /\ ~HasLastEvaluatedKey(scan_response)
       \/ pc \in {"put_config_csv", "put_config_manifest", "done"}

\* C2: when a scan loop returns, the collected items are the items of all
\* pages of the scanned table, each exactly once, in page order and then
\* within-page order (so sum(ai) items), for zero, one or many pages.
C2_CollectAll ==
    /\ UiScanReturned => CollectsAllPages(ui_reference_scan_items, uiTable)
    /\ ConfigScanReturned => CollectsAllPages(config_scan_items, cfgTable)

\* both scans returned after two pages each, the pages not empty
C2_Witness ==
    /\ ConfigScanReturned
    /\ Len(uiTable) = 2 /\ Len(uiTable[1]) = 2 /\ Len(uiTable[2]) = 1
    /\ Len(cfgTable) = 2 /\ Len(cfgTable[1]) = 1 /\ Len(cfgTable[2]) = 2
    /\ Len(ui_reference_scan_items) = 3
    /\ Len(config_scan_items) = 3

MetadataResolutionTried ==
    \/ job = "configuration" /\ pc # "start"
    \/ /\ job = "convert_parquet"
       /\ pc \notin {"start", "read_raw", "get_metadata"}
       /\ error.type # "NoNewDataException"

\* C3: in both jobs, with the MESSAGE_FORMAT item absent from the config
\* table, metadata resolution raises ItemNotFoundException with a message
\* naming the config table; the run stops there, the item having been read
\* once, no object written and no bookmark committed.
C3_MissingConfigItem ==
    (~configItem.exists /\ MetadataResolutionTried) =>
        /\ pc = "failed"
        /\ error.type = "ItemNotFoundException"
        /\ \E i \in DOMAIN error.message : error.message[i] = CONFIG_TABLE
        /\ Cardinality(ApiCalls("dynamodb.get_item", CONFIG_TABLE)) = 1
        /\ ops[Len(ops)] = StoreOp("dynamodb.get_item", CONFIG_TABLE)
        /\ s3out = <<>>
        /\ ~bookmark

\* the conversion job found new data and then no config item
C3_Witness ==
    /\ job = "convert_parquet"
    /\ ~configItem.exists
    /\ pc = "failed"
    /\ error.type = "ItemNotFoundException"
    /\ Len(raw_json_data) = 2

\* the indices at which d occurs in s
Occurrences(s, d) == {i \in 1..Len(s) : OccursAt(s, d, i)}

Contains(s, d) == Occurrences(s, d) # {}

LastOccurrence(s, d) == CHOOSE i \in Occurrences(s, d) : \A j \in Occurrences(s, d) : j <= i

\* the text after index i + Len(d) - 1
After(s, d, i) == SubSeq(s, i + Len(d), Len(s))

Before(s, i) == SubSeq(s, 1, i - 1)

\* no two occurrences of d in s share a character
OccurrencesDisjoint(s, d) ==
    \A i, j \in Occurrences(s, d) : i < j => i + Len(d) <= j

\* the occurrences a left-to-right search meets when each search starts
\* after the previous match: an occurrence counts unless an earlier counted
\* one overlaps it
SearchedOccurrences(s, d) ==
    LET Counted[i \in 0..Len(s)] ==
            IF i = 0 THEN {}
            ELSE IF OccursAt(s, d, i) /\ \A j \in Counted[i - 1] : j + Len(d) <= i
                 THEN Counted[i - 1] \cup {i}
                 ELSE Counted[i - 1]
    IN  Counted[Len(s)]

LastSearchedOccurrence(s, d) ==
    CHOOSE i \in SearchedOccurrences(s, d) : \A j \in SearchedOccurrences(s, d) : j <= i

\* C4 as stated: the alias is split at the last delimiter occurrence: with
\* the delimiter in the alias, tag is the text after the last occurrence and
\* idPath + delimiter + tag is the alias; without it, idPath is empty and
\* tag is the alias.
C4_SplitsAtLastOccurrence ==
    pc = "applied" =>
        LET s == fn_in.name
            d == fn_in.delimiter
        IN  IF Contains(s, d)
            THEN /\ fn_out.tag = After(s, d, LastOccurrence(s, d))
                 /\ fn_out.id \o d \o fn_out.tag = s
            ELSE /\ fn_out.id = <<>>
                 /\ fn_out.tag = s

\* C4 amended: the alias is split at the last of the delimiter occurrences
\* that a left-to-right search meets, each search starting after the
\* previous match: tag is the text after it, idPath the text before it, and
\* idPath + delimiter + tag is the alias. That occurrence is the last
\* occurrence whenever no two occurrences of the delimiter in the alias
\* overlap, as with every one-character delimiter. Without the delimiter in
\* the alias, idPath is empty and tag is the alias.
C4_SplitsAtLastSearchedOccurrence ==
    pc = "applied" =>
        LET s == fn_in.name
            d == fn_in.delimiter
        IN  IF Contains(s, d)
            THEN LET m == LastSearchedOccurrence(s, d)
                 IN  /\ fn_out.tag = After(s, d, m)
                     /\ fn_out.id = Before(s, m)
                     /\ fn_out.id \o d \o fn_out.tag = s
                     /\ OccurrencesDisjoint(s, d) => m = LastOccurrence(s, d)
            ELSE /\ fn_out.id = <<>>
                 /\ fn_out.tag = s

\* an alias decomposed by a delimiter whose occurrences in it overlap
C4_Witness ==
    /\ pc = "applied"
    /\ Contains(fn_in.name, fn_in.delimiter)
    /\ ~OccurrencesDisjoint(fn_in.name, fn_in.delimiter)
    /\ fn_out.id # <<>>

PositionValue ==
    (<<"0">> :> 0) @@ (<<"1">> :> 1) @@ (<<"2">> :> 2) @@ (<<"3">> :> 3)
    @@ (<<"1", "0">> :> 10)

\* the segments at the positions below the segment count, in list order
SegmentsInRange(split_ids, keys) ==
    LET positions == [i \in DOMAIN keys |-> PositionValue[keys[i]]]
        inRange == SelectSeq(positions, LAMBDA p : p < Len(split_ids))
    IN  [j \in DOMAIN inRange |-> split_ids[inRange[j] + 1]]

\* C5: for every segment sequence and every list of non-negative positions
\* build_location_line raises nothing and returns the segments at the
\* positions below the segment count, in list order, joined with the
\* delimiter; an empty position list gives the empty string.
C5_BuildLocationLine ==
    pc = "applied" =>
        LET expected == SegmentsInRange(fn_in.split_ids, fn_in.keys)
        IN  /\ ~fn_out.raised
            /\ fn_out.value = Join(expected, fn_in.delimiter)
            /\ Len(expected) <= Cardinality({i \in DOMAIN fn_in.keys :
                                   PositionValue[fn_in.keys[i]] < Len(fn_in.split_ids)})
            /\ fn_in.keys = <<>> => fn_out.value = <<>>

\* a position list whose first position is beyond the segments and whose
\* second is the last segment
C5_Witness ==
    /\ pc = "applied"
    /\ Len(fn_in.keys) = 2
    /\ Len(fn_in.split_ids) = 2
    /\ PositionValue[fn_in.keys[1]] >= Len(fn_in.split_ids)
    /\ PositionValue[fn_in.keys[2]] = Len(fn_in.split_ids) - 1
    /\ fn_out.value = fn_in.split_ids[2]

ReferenceTableBuilt ==
    /\ job = "configuration"
    /\ pc \in {"put_reference_csv", "put_reference_manifest", "scan_config",
               "scan_config_loop", "put_config_csv", "put_config_manifest", "done"}

ConfigTableBuilt ==
    /\ job = "configuration"
    /\ pc \in {"put_config_csv", "put_config_manifest", "done"}

ReferenceOutputKeys ==
    {CsvKey(MACHINE_INFORMATION_CSV), ManifestKey(MACHINE_INFORMATION_MANIFEST)}

ConfigOutputKeys ==
    {CsvKey(MACHINE_CONFIG_INFORMATION_CSV),
     ManifestKey(MACHINE_CONFIG_INFORMATION_MANIFEST)}

\* C6 as stated: in a run of the configuration job no object is put to the
\* output store before every scan and every table-building step of the run
\* has finished.
C6_NoPutBeforeAllTablesBuilt ==
    (job = "configuration" /\ s3out # <<>>) =>
        /\ UiScanReturned /\ ReferenceTableBuilt
        /\ ConfigScanReturned /\ ConfigTableBuilt

\* C6 amended: in a run of the configuration job each of the four objects
\* is put by one call, and only after the scan and the table-building step
\* that produce its content have finished: the machine information CSV and
\* its manifest
\* after the ui-reference scan and the reference table (and before the
\* config table is scanned), the machine config CSV and its manifest after
\* the config scan and the config table; a CSV object holds the whole table
\* built.
C6_PutAfterOwnTableBuilt ==
    job = "configuration" =>
        /\ \A i \in DOMAIN s3out :
              /\ s3out[i].Key \in ReferenceOutputKeys \cup ConfigOutputKeys
              /\ s3out[i].Key \in ReferenceOutputKeys =>
                    UiScanReturned /\ ReferenceTableBuilt
              /\ s3out[i].Key \in ConfigOutputKeys =>
                    ConfigScanReturned /\ ConfigTableBuilt
              /\ s3out[i].Key = CsvKey(MACHINE_INFORMATION_CSV) =>
                    s3out[i].Body = [csv |-> reference_csv_body]
              /\ s3out[i].Key = CsvKey(MACHINE_CONFIG_INFORMATION_CSV) =>
                    s3out[i].Body = [csv |-> config_csv_body]
        /\ Len(s3out) <= 4
        /\ (pc \in {"start", "scan_ui", "scan_ui_loop"}) => s3out = <<>>
        /\ (pc \in {"scan_config", "scan_config_loop"}) => Len(s3out) = 2

\* the reference CSV and manifest are in the bucket while the config table,
\* of two pages, is still being scanned
C6_Witness ==
    /\ job = "configuration"
    /\ pc = "scan_config_loop"
    /\ HasLastEvaluatedKey(scan_response)
    /\ Len(s3out) = 2
    /\ Len(reference_csv_body.rows) = 3

\* the i-th comma of s, counted from 1; 0 for i = 0 and Len(s) + 1 past the last
CommaAt(s, i) ==
    LET commas == {k \in 1..Len(s) : s[k] = ","}
    IN  IF i = 0 THEN 0
        ELSE IF i > Cardinality(commas) THEN Len(s) + 1
        ELSE CHOOSE k \in commas : Cardinality({c \in commas : c <= k}) = i

\* the text between the (i-1)-th and the i-th comma
Piece(s, i) == SubSeq(s, CommaAt(s, i - 1) + 1, CommaAt(s, i) - 1)

\* s without the white space around it
Trimmed(s) ==
    LET solid == {k \in 1..Len(s) : s[k] \notin Whitespace}
    IN  IF solid = {} THEN <<>>
        ELSE SubSeq(s, CHOOSE k \in solid : \A j \in solid : k <= j,
                       CHOOSE k \in solid : \A j \in solid : j <= k)

\* C7: a scanned config item gives one record per comma-separated piece of
\* its down-value string, in piece order, each with the item's id and
\* status tag and the piece trimmed of surrounding white space: k commas
\* give k+1 records ("10, 20,30" gives "10", "20", "30"), an empty or
\* absent down-value gives one record with an empty down value.
C7_DownValueFanOut ==
    pc = "applied" =>
        LET absent == "machineStatusDownValue" \notin DOMAIN fn_in
            down_value == IF absent THEN <<>> ELSE fn_in["machineStatusDownValue"]["S"]
            status_tag == IF "machineStatusTagName" \in DOMAIN fn_in
                          THEN fn_in["machineStatusTagName"]["S"] ELSE <<>>
            commas == Cardinality({k \in 1..Len(down_value) : down_value[k] = ","})
        IN  /\ Len(fn_out) = commas + 1
            /\ \A i \in 1..Len(fn_out) :
                  /\ fn_out[i].id = fn_in["id"]["S"]
                  /\ fn_out[i].status_tag = status_tag
                  /\ fn_out[i].down_value = Trimmed(Piece(down_value, i))
            /\ down_value = <<>> => (Len(fn_out) = 1 /\ fn_out[1].down_value = <<>>)
            /\ SplitDownValues(<<"1", "0", ",", " ", "2", "0", ",", "3", "0">>)
                   = << <<"1", "0">>, <<"2", "0">>, <<"3", "0">> >>

\* "1, 1": two records, the second piece trimmed of its leading blank
C7_Witness ==
    /\ pc = "applied"
    /\ "machineStatusDownValue" \in DOMAIN fn_in
    /\ fn_in["machineStatusDownValue"]["S"] = <<"1", ",", " ", "1">>
    /\ Len(fn_out) = 2
    /\ fn_out[2].down_value = <<"1">>

Manifests == {i \in DOMAIN s3out : "json" \in DOMAIN s3out[i].Body}

\* the manifest's single URI is where an earlier put stored a CSV object
ReferencesWrittenCsv(i) ==
    LET locations == s3out[i].Body["json"]["fileLocations"]
    IN  /\ Len(locations) = 1
        /\ DOMAIN locations[1] = {"URIs"}
        /\ Len(locations[1]["URIs"]) = 1
        /\ i > 1
        /\ "csv" \in DOMAIN s3out[i - 1].Body
        /\ locations[1]["URIs"][1] =
               [scheme |-> "s3", bucket |-> s3out[i - 1].Bucket, key |-> s3out[i - 1].Key]

\* C8 as stated: every manifest put is {fileLocations: [{URIs: [outputPath]}],
\* globalUploadSettings: {format: "CSV", delimiter: ",", textQualifier: "'",
\* containsHeader: true}}, containsHeader the boolean, outputPath the place
\* of the CSV object.
C8_ManifestAsSpecified ==
    \A i \in Manifests :
        LET settings == s3out[i].Body["json"]["globalUploadSettings"]
        IN  /\ DOMAIN s3out[i].Body["json"] = {"fileLocations", "globalUploadSettings"}
            /\ ReferencesWrittenCsv(i)
            /\ DOMAIN settings = {"format", "delimiter", "textQualifier", "containsHeader"}
            /\ settings["format"] = [str |-> "CSV"]
            /\ settings["delimiter"] = [str |-> ","]
            /\ settings["textQualifier"] = [str |-> "'"]
            /\ settings["containsHeader"] = [bool |-> TRUE]

\* C8 amended: every manifest put is {fileLocations: [{URIs: [outputPath]}],
\* globalUploadSettings: {format: "CSV", delimiter: ",", textqualifier: "'",
\* containsHeader: "true"}}: the text qualifier's key is the lower-case
\* textqualifier and containsHeader is the string "true"; outputPath is the
\* place of the CSV object put just before it.
C8_ManifestAsBuilt ==
    \A i \in Manifests :
        LET settings == s3out[i].Body["json"]["globalUploadSettings"]
        IN  /\ DOMAIN s3out[i].Body["json"] = {"fileLocations", "globalUploadSettings"}
            /\ ReferencesWrittenCsv(i)
            /\ DOMAIN settings = {"format", "delimiter", "textqualifier", "containsHeader"}
            /\ settings["format"] = [str |-> "CSV"]
            /\ settings["delimiter"] = [str |-> ","]
            /\ settings["textqualifier"] = [str |-> "'"]
            /\ settings["containsHeader"] = [str |-> "true"]

\* both manifests are in the bucket
C8_Witness ==
    /\ job = "configuration"
    /\ pc = "done"
    /\ Cardinality(Manifests) = 2

\* the schema fields as the config item holds them
StoredSchemaFields ==
    <<configItem.attrs["msgFormatDataAliasDelimiter"]["S"],
      configItem.attrs["msgFormatDataMessagesKeyName"]["S"],
      configItem.attrs["msgFormatDataMessageAliasKeyName"]["S"],
      configItem.attrs["msgFormatDataMessageQualityKeyName"]["S"],
      configItem.attrs["msgFormatDataMessageTimestampKeyName"]["S"],
      configItem.attrs["msgFormatDataMessageValueKeyName"]["S"]>>

MetadataRead == ApiCalls("dynamodb.get_item", CONFIG_TABLE) # {}

\* a step in which convert_data_format is applied to a record
ConvertStep ==
    /\ pc = "convert"
    /\ \/ converted_json_data' # converted_json_data
       \/ pc' = "failed"

\* C9: in the conversion job the schema fields are assigned by one step
\* only, the metadata resolution, which reads the config item once; every
\* application of convert_data_format comes after it and finds the fields
\* as the config item holds them; no step after the resolution changes them.
C9_SchemaResolvedOnce ==
    [][job = "convert_parquet" =>
          /\ SchemaFields' # SchemaFields =>
                /\ pc = "get_metadata"
                /\ ~MetadataRead
                /\ SchemaUnset
                /\ SchemaFields' = StoredSchemaFields
          /\ MetadataRead => SchemaFields' = SchemaFields
          /\ ConvertStep => (MetadataRead /\ SchemaFields = StoredSchemaFields)
          /\ Cardinality(ApiCalls("dynamodb.get_item", CONFIG_TABLE))' <= 1]_vars

\* two records converted under the "//" delimiter
C9_Witness ==
    /\ job = "convert_parquet"
    /\ Len(converted_json_data) = 2
    /\ delimiter = <<"/", "/">>
    /\ pc = "done"

ReferenceMappingAbsent ==
    \/ ~uiRefItem.exists
    \/ DOMAIN uiRefItem.attrs = {}

MessageChoices ==
    {[name |-> <<"a", "/", "b", "/", "t">>, timestamp |-> "2021-03-04T05:06:07Z",
      quality |-> [int |-> 1], value |-> [int |-> 7]],
     [name |-> <<"t">>, timestamp |-> "03/04/2021 05:06:07.5",
      quality |-> [str |-> <<"G">>], value |-> [bool |-> TRUE]],
     [name |-> <<"a", "/", "/", "/", "t">>, timestamp |-> "2021-03-04T05:06:07Z",
      quality |-> [bool |-> FALSE], value |-> [str |-> <<"o", "n">>]],
     [name |-> <<"b", "/", "t">>, timestamp |-> "not a date",
      quality |-> [int |-> 0], value |-> [int |-> 0]]}

EnvelopeChoices == {[messages |-> m] : m \in SeqsBetween(MessageChoices, 0, MaxMessages)}

InitConvert ==
    /\ job = "none"
    /\ pc = "apply"
    /\ configItem \in {MessageFormatItem(<<"/">>, "messages"),
                       MessageFormatItem(<<"/", "/">>, "messages")}
    /\ uiRefItem = NoItem
    /\ uiTable = <<>>
    /\ cfgTable = <<>>
    /\ inputObjects = <<>>
    /\ error = NoError
    /\ ops = <<>>
    /\ s3out = <<>>
    /\ bookmark = FALSE
    /\ delimiter = configItem.attrs["msgFormatDataAliasDelimiter"]["S"]
    /\ messages_key_name = "messages"
    /\ message_alias_key_name = "name"
    /\ message_quality_key_name = "quality"
    /\ message_timestamp_key_name = "timestamp"
    /\ message_value_key_name = "value"
    /\ location_keys = Empty
    /\ line_keys = Empty
    /\ scan_response = Empty
    /\ ui_reference_scan_items = Empty
    /\ reference_csv_body = Empty
    /\ config_scan_items = Empty
    /\ config_csv_body = Empty
    /\ raw_json_data = Empty
    /\ converted_json_data = Empty
    /\ mapped_data = Empty
    /\ fn_in \in SeqsBetween(EnvelopeChoices, 1, MaxEnvelopes)
    /\ fn_out = Empty

ApplyConvertAndExplode ==
    /\ job = "none"
    /\ Applied(ConvertAndExplode(fn_in))

SpecConvert == InitConvert /\ [][ApplyConvertAndExplode]_vars

\* the text a JSON primitive is written as by str()
TextOf(v) ==
    IF "str" \in DOMAIN v THEN v["str"]
    ELSE IF "bool" \in DOMAIN v
         THEN (IF v["bool"] THEN <<"T", "r", "u", "e">> ELSE <<"F", "a", "l", "s", "e">>)
         ELSE IF v["int"] = 7 THEN <<"7">> ELSE <<"0">>

CanonicalTimestamp(ts) ==
    IF ts = "2021-03-04T05:06:07Z" THEN "2021/03/04 05:06:07.000000"
    ELSE "2021/03/04 05:06:07.500000"

\* the normalized record of one message under delimiter d
NormalizedFrom(message, d) ==
    LET alias == message["name"]
        m == LastSearchedOccurrence(alias, d)
    IN  [id |-> IF Contains(alias, d) THEN Before(alias, m) ELSE <<>>,
         tag |-> IF Contains(alias, d) THEN After(alias, d, m) ELSE alias,
         timestamp |-> CanonicalTimestamp(message["timestamp"]),
         quality |-> message["quality"],
         value |-> TextOf(message["value"])]

RECURSIVE MessagesBefore(_, _)
\* the number of messages of the first n records of a frame
MessagesBefore(frame, n) ==
    IF n = 0 THEN 0 ELSE MessagesBefore(frame, n - 1) + Len(frame[n]["messages"])

\* C11: convert_data_format gives, for a record with n messages, exactly n
\* normalized records, the i-th made from the i-th message: id and tag from
\* its alias, quality as it came, value as text; the rows of the frame are
\* one flat sequence, record after record, each record's rows in message
\* order. (Nothing but a timestamp that does not parse makes the function
\* raise instead.)
C11_OneRecordPerMessageInOrder ==
    pc = "applied" =>
        /\ fn_out.raised =>
              \E r \in DOMAIN fn_in : \E i \in DOMAIN fn_in[r]["messages"] :
                  fn_in[r]["messages"][i]["timestamp"] = "not a date"
        /\ ~fn_out.raised =>
              /\ Len(fn_out.converted) = Len(fn_in)
              /\ Len(fn_out.value) = MessagesBefore(fn_in, Len(fn_in))
              /\ \A r \in DOMAIN fn_in :
                    /\ DOMAIN fn_out.converted[r] = {"messages"}
                    /\ Len(fn_out.converted[r]["messages"]) = Len(fn_in[r]["messages"])
                    /\ \A i \in DOMAIN fn_in[r]["messages"] :
                          /\ fn_out.converted[r]["messages"][i]
                                = NormalizedFrom(fn_in[r]["messages"][i], delimiter)
                          /\ fn_out.value[MessagesBefore(fn_in, r - 1) + i]
                                = NormalizedFrom(fn_in[r]["messages"][i], delimiter)

\* two records of two different messages each, flattened to four rows
C11_Witness ==
    /\ pc = "applied"
    /\ ~fn_out.raised
    /\ Len(fn_in) = 2
    /\ Len(fn_in[1]["messages"]) = 2
    /\ Len(fn_in[2]["messages"]) = 2
    /\ fn_in[1]["messages"][1] # fn_in[1]["messages"][2]
    /\ fn_in[2]["messages"][1]["value"] = [str |-> <<"o", "n">>]
    /\ delimiter = <<"/", "/">>
    /\ Len(fn_out.value) = 4

\* the positions of the calls of one API in the history
CallsOf(api) == {i \in DOMAIN ops : ops[i].api = api}

\* the parquet output of the partition is in the output bucket
ParquetWritten ==
    \E i \in DOMAIN s3out :
        /\ s3out[i].Bucket = OUTPUT_BUCKET
        /\ s3out[i].Key = <<PARTITION>>
        /\ DOMAIN s3out[i].Body = {"parquet"}

\* C12: in every run of the conversion job the bookmark is committed only
\* after the parquet output of the partition was written without an error,
\* and a run that ends in an error (no new data, no config item, a record
\* that does not convert, a write that fails) never commits it.
C12_CommitOnlyAfterWrite ==
    job = "convert_parquet" =>
        /\ bookmark <=> CallsOf("job.commit") # {}
        /\ bookmark =>
              /\ ParquetWritten
              /\ error = NoError
              /\ pc = "done"
              /\ \A c \in CallsOf("job.commit") :
                    \E w \in CallsOf("glue.write") : w < c
        /\ error # NoError <=> pc = "failed"
        /\ pc = "failed" => ~bookmark
        /\ pc = "done" => bookmark

\* a run that wrote the rows of its records and then committed
C12_Witness ==
    /\ job = "convert_parquet"
    /\ pc = "done"
    /\ bookmark
    /\ ParquetWritten
    /\ mapped_data # <<>>
    /\ ops[Len(ops)].api = "job.commit"
    /\ ops[Len(ops) - 1].api = "glue.write"
====
